---- MODULE Spec2Model ----
(***************************************************************************)
(* The servo handler of tinygo-servo (DefaultHandler, built on tinygo-pwm):*)
(* construction with its validation chain, SetAngle and the operations     *)
(* that delegate to it.  Unsigned 16-bit and 32-bit arithmetic wraps as in *)
(* Go; int16 is two's complement.                                          *)
(***************************************************************************)
EXTENDS Integers, Sequences, FiniteSets, TLC

VARIABLES
    h,        \* the handler NewDefaultHandler returned, or NilHandler
    args,     \* the arguments NewDefaultHandler was called with
    err,      \* the error code the last call returned
    call,     \* the last call: operation, argument, angle held before it
    events    \* the collaborator calls the last call made, in order

vars == <<h, args, err, call, events>>

-----------------------------------------------------------------------------
(* Machine integers *)

Uint16Mod == 65536

\* uint16 arithmetic result
U16(x) == x % Uint16Mod

\* int16(x): reinterpretation of the low 16 bits as two's complement
I16(x) == LET m == x % Uint16Mod IN IF m >= 32768 THEN m - Uint16Mod ELSE m

(* Numbers of 32 bits and more are sequences of base-256 digits, least      *)
(* significant first: a uint32 has 4 digits, the float64 product 6.         *)

Base == 256

\* the k digits of n, 0 <= n < 2^31
Digits(n, k) == [i \in 1..k |-> (n \div Base^(i-1)) % Base]

\* uint32 a - b, for 0 <= a, b < 2^31: 2^32 - (b - a) when a < b
Sub32(a, b) ==
    IF a >= b THEN Digits(a - b, 4)
    ELSE LET c == Digits((2147483647 - (b - a)) + 1, 4)
         IN  [c EXCEPT ![4] = c[4] + 128]

RECURSIVE MulCarry(_, _, _)
MulCarry(ds, m, carry) ==
    IF ds = <<>> THEN <<carry % Base, carry \div Base>>
    ELSE LET t == Head(ds) * m + carry
         IN  <<t % Base>> \o MulCarry(Tail(ds), m, t \div Base)

\* ds * m, for 0 <= m < 2^16: two digits longer than ds
MulSmall(ds, m) == MulCarry(ds, m, 0)

RECURSIVE DivRem(_, _, _)
\* the remainder left after dividing digits Len(ds)..i of ds by r
DivRem(ds, r, i) ==
    IF i > Len(ds) THEN 0 ELSE (DivRem(ds, r, i + 1) * Base + ds[i]) % r

\* floor(ds / r), for 0 < r <= 360
DivSmall(ds, r) ==
    [i \in 1..Len(ds) |-> (DivRem(ds, r, i + 1) * Base + ds[i]) \div r]

\* whether a number fits in 32 bits
Fits32(ds) == \A i \in 5..Len(ds) : ds[i] = 0

\* its low 32 bits
Low32(ds) == SubSeq(ds, 1, 4)

MaxUint32 == <<255, 255, 255, 255>>

RECURSIVE AddCarry(_, _, _)
AddCarry(a, b, carry) ==
    IF a = <<>> THEN <<>>
    ELSE LET t == Head(a) + Head(b) + carry
         IN  <<t % Base>> \o AddCarry(Tail(a), Tail(b), t \div Base)

\* uint32 a + b
Add32(a, b) == AddCarry(a, b, 0)

-----------------------------------------------------------------------------
(* Error codes *)

ErrorCodeNil == "ErrorCodeNil"
ErrorCodeServoFailedToConfigurePWM == "ErrorCodeServoFailedToConfigurePWM"
ErrorCodeServoZeroFrequency == "ErrorCodeServoZeroFrequency"
ErrorCodeServoAngleOutOfRange == "ErrorCodeServoAngleOutOfRange"
ErrorCodeServoInvalidMinPulseWidth == "ErrorCodeServoInvalidMinPulseWidth"
ErrorCodeServoInvalidMaxPulseWidth == "ErrorCodeServoInvalidMaxPulseWidth"
ErrorCodeServoFailedToGetPWMChannel == "ErrorCodeServoFailedToGetPWMChannel"
ErrorCodeServoInvalidActuationRange == "ErrorCodeServoInvalidActuationRange"
ErrorCodeServoInvalidCenterAngle == "ErrorCodeServoInvalidCenterAngle"

\* the nil *DefaultHandler
NilHandler == [nil |-> TRUE]

-----------------------------------------------------------------------------
(* Inputs *)

\* SetAngle arguments: 0, 30, ..., 30*MaxAngleSteps
MaxAngleSteps == 7
\* and the MaxTopInputs+1 largest uint16 values
MaxTopInputs == 0
\* SetAngleRelativeToCenter arguments: -30*MaxRelSteps, ..., 30*MaxRelSteps
MaxRelSteps == 3

AngleInputs ==
    {30 * k : k \in 0..MaxAngleSteps} \cup {Uint16Mod - 1 - k : k \in 0..MaxTopInputs}

RelativeInputs == {30 * k : k \in (-MaxRelSteps)..MaxRelSteps}

\* SetAngleToLeft / SetAngleToRight arguments: 0, 30, ..., 30*MaxOffsetSteps
MaxOffsetSteps == 4

OffsetInputs == {30 * k : k \in 0..MaxOffsetSteps}

FrequencyInputs == {0, 50}
MinPulseWidthInputs == {0, 1000000, 20000000}
MaxPulseWidthInputs == {0, 500000, 2000000, 20000000}
ActuationRangeInputs == {0, 180, 361}
CenterAngleInputs == {60, 90, 120, 200}
MaxLeftAngleInputs == {30, 90}
MaxRightAngleInputs == {90, 65500}
PinChannels == {6}

\* the arguments of NewDefaultHandler and what the PWM collaborator answers
ConstructorInputs ==
    [ frequency : FrequencyInputs,
      configureOK : BOOLEAN,
      channelOK : BOOLEAN,
      channel : PinChannels,
      minPulseWidth : MinPulseWidthInputs,
      maxPulseWidth : MaxPulseWidthInputs,
      actuationRange : ActuationRangeInputs,
      centerAngle : CenterAngleInputs,
      maxLeftAngle : MaxLeftAngleInputs,
      maxRightAngle : MaxRightAngleInputs,
      isDirectionInverted : BOOLEAN,
      hasLogger : BOOLEAN,
      hasAfterSetAngleFunc : BOOLEAN,
      hasIsMovementEnabled : BOOLEAN ]

-----------------------------------------------------------------------------
(* Effects on the collaborators, in the order the call makes them *)

NoPulse == <<>>

\* tinygopwm.SetDuty(pwm, channel, pulse, period); pulse is a uint32 in digits
DutyEvent(channel, pulse, period) ==
    [kind |-> "SetDuty", channel |-> channel, value |-> 0, pulse |-> pulse,
     period |-> period]

\* logger.AddMessageWithUint16(setAnglePrefix, angle, ...); logger.Debug()
LogAngleEvent(angle) ==
    [kind |-> "LogAngle", channel |-> 0, value |-> angle, pulse |-> NoPulse,
     period |-> 0]

\* logger.AddMessageWithUint32(setPeriodPrefix, period, ...); logger.Debug()
LogPeriodEvent(period) ==
    [kind |-> "LogPeriod", channel |-> 0, value |-> period, pulse |-> NoPulse,
     period |-> 0]

\* afterSetAngleFunc(angle)
CallbackEvent(angle) ==
    [kind |-> "AfterSetAngle", channel |-> 0, value |-> angle, pulse |-> NoPulse,
     period |-> 0]

\* h.isMovementEnabled(), with its answer (1 for true, 0 for false)
PredicateEvent(enabled) ==
    [kind |-> "IsMovementEnabled", channel |-> 0,
     value |-> IF enabled THEN 1 ELSE 0, pulse |-> NoPulse, period |-> 0]

-----------------------------------------------------------------------------
(* SetAngle *)

\* angle after the inversion step
Remap(hd, angle) ==
    IF hd.isDirectionInverted THEN U16(hd.actuationRange - angle) ELSE angle

\* the range check, in uint16 arithmetic
AngleOutOfRange(hd, angle) ==
    \/ angle < U16(hd.centerAngle - hd.leftLimitAngle)
    \/ angle > U16(hd.centerAngle + hd.rightLimitAngle)

\* uint32(f) of a non-negative float64 f with integer part q: exact when q fits
\* in 32 bits, otherwise what the target's conversion yields (the low 32 bits,
\* or saturation)
FloatToUint32(q) ==
    IF Fits32(q) THEN {Low32(q)} ELSE {Low32(q), MaxUint32}

\* the pulses the duty computation can yield, as uint32 digits
Pulses(hd, angle) ==
    LET span == Sub32(hd.maxPulseWidth, hd.minPulseWidth)
        q == DivSmall(MulSmall(span, angle), hd.actuationRange)
    IN  {Add32(Digits(hd.minPulseWidth, 4), c) : c \in FloatToUint32(q)}

\* a rejection that has already stored the target
RejectedAfterStore(hd, angle) ==
    [h |-> [hd EXCEPT !.angle = angle], err |-> ErrorCodeServoAngleOutOfRange,
     events |-> <<>>]

\* the result of a call that fails the range check
Rejected(hd, angle) ==
    [h |-> hd, err |-> ErrorCodeServoAngleOutOfRange, events |-> <<>>]

\* the result of a call whose target is the current angle
Unchanged(hd, angle) ==
    [h |-> hd, err |-> ErrorCodeNil, events |-> <<>>]

\* a move that returns as soon as movement is found disabled
MovedUnlessDisabled(hd, angle, pulse, enabled) ==
    [h |-> [hd EXCEPT !.angle = angle],
     err |-> ErrorCodeNil,
     events |->
        IF hd.hasIsMovementEnabled /\ ~enabled
            THEN <<PredicateEvent(enabled)>>
            ELSE (IF hd.hasIsMovementEnabled THEN <<PredicateEvent(enabled)>> ELSE <<>>)
                 \o <<DutyEvent(hd.channel, pulse, hd.period)>>
                 \o (IF hd.hasLogger THEN <<LogAngleEvent(angle)>> ELSE <<>>)
                 \o (IF hd.hasAfterSetAngleFunc THEN <<CallbackEvent(angle)>> ELSE <<>>)]

\* the result of a call that moves the servo
Moved(hd, angle, pulse, enabled) ==
    [h |-> [hd EXCEPT !.angle = angle],
     err |-> ErrorCodeNil,
     events |->
        (IF hd.hasIsMovementEnabled THEN <<PredicateEvent(enabled)>> ELSE <<>>)
        \o (IF ~hd.hasIsMovementEnabled \/ enabled
            THEN <<DutyEvent(hd.channel, pulse, hd.period)>> ELSE <<>>)
        \o (IF hd.hasLogger THEN <<LogAngleEvent(angle)>> ELSE <<>>)
        \o (IF hd.hasAfterSetAngleFunc THEN <<CallbackEvent(angle)>> ELSE <<>>)]

\* the outcomes of h.SetAngle(angle); enabled is what isMovementEnabled answers
SetAngle(hd, angle, enabled) ==
    LET target == Remap(hd, angle)
    IN  IF AngleOutOfRange(hd, target) THEN {Rejected(hd, target)}
        ELSE IF target = hd.angle THEN {Unchanged(hd, target)}
        ELSE {Moved(hd, target, p, enabled) : p \in Pulses(hd, target)}

GetAngle(hd) == hd.angle

IsAngleCentered(hd) == hd.angle = hd.centerAngle

SetAngleToCenter(hd, enabled) == SetAngle(hd, hd.centerAngle, enabled)

\* the result of a relative call that fails its own limit check
RelativeRejected(hd) ==
    [h |-> hd, err |-> ErrorCodeServoAngleOutOfRange, events |-> <<>>]

\* h.SetAngleRelativeToCenter(relativeAngle), in int16 arithmetic
SetAngleRelativeToCenter(hd, relativeAngle, enabled) ==
    LET absoluteAngle == I16(I16(hd.centerAngle) + relativeAngle)
    IN  IF \/ absoluteAngle < I16(hd.leftLimitAngle)
           \/ absoluteAngle > I16(hd.rightLimitAngle)
            THEN {RelativeRejected(hd)}
            ELSE SetAngle(hd, U16(absoluteAngle), enabled)

\* the offset SetAngleToRight passes on
ClampRight(hd, angle) ==
    LET a == IF angle < 0 THEN 0 ELSE angle
    IN  IF a > U16(hd.rightLimitAngle - hd.centerAngle)
            THEN U16(hd.rightLimitAngle - hd.centerAngle) ELSE a

\* the offset SetAngleToLeft passes on
ClampLeft(hd, angle) ==
    LET a == IF angle < 0 THEN 0 ELSE angle
    IN  IF a > U16(hd.centerAngle - hd.leftLimitAngle)
            THEN U16(hd.centerAngle - hd.leftLimitAngle) ELSE a

SetAngleToRight(hd, angle, enabled) ==
    SetAngleRelativeToCenter(hd, I16(ClampRight(hd, angle)), enabled)

SetAngleToLeft(hd, angle, enabled) ==
    SetAngleRelativeToCenter(hd, I16(-I16(ClampLeft(hd, angle))), enabled)

-----------------------------------------------------------------------------
(* Construction *)

\* uint32(1e9 / float64(frequency))
Period(frequency) == 1000000000 \div frequency

\* the checks with the pulse widths validated before the PWM is set up
ValidationErrorPulseFirst(in) ==
    IF in.frequency = 0 THEN ErrorCodeServoZeroFrequency
    ELSE IF in.minPulseWidth = 0 \/ in.minPulseWidth >= Period(in.frequency)
        THEN ErrorCodeServoInvalidMinPulseWidth
    ELSE IF in.maxPulseWidth = 0 \/ in.maxPulseWidth >= Period(in.frequency)
        THEN ErrorCodeServoInvalidMaxPulseWidth
    ELSE IF ~in.configureOK THEN ErrorCodeServoFailedToConfigurePWM
    ELSE IF ~in.channelOK THEN ErrorCodeServoFailedToGetPWMChannel
    ELSE IF in.actuationRange = 0 \/ in.actuationRange > 360
        THEN ErrorCodeServoInvalidActuationRange
    ELSE IF in.centerAngle < 0 \/ in.centerAngle > in.actuationRange
        THEN ErrorCodeServoInvalidCenterAngle
    ELSE ErrorCodeNil

\* the first failing check, or ErrorCodeNil
ValidationError(in) ==
    IF in.frequency = 0 THEN ErrorCodeServoZeroFrequency
    ELSE IF ~in.configureOK THEN ErrorCodeServoFailedToConfigurePWM
    ELSE IF ~in.channelOK THEN ErrorCodeServoFailedToGetPWMChannel
    ELSE IF in.minPulseWidth = 0 \/ in.minPulseWidth >= Period(in.frequency)
        THEN ErrorCodeServoInvalidMinPulseWidth
    ELSE IF in.maxPulseWidth = 0 \/ in.maxPulseWidth >= Period(in.frequency)
        THEN ErrorCodeServoInvalidMaxPulseWidth
    ELSE IF in.actuationRange = 0 \/ in.actuationRange > 360
        THEN ErrorCodeServoInvalidActuationRange
    ELSE IF in.centerAngle < 0 \/ in.centerAngle > in.actuationRange
        THEN ErrorCodeServoInvalidCenterAngle
    ELSE ErrorCodeNil

\* leftLimitAngle: uint16 subtraction, then the comparison with 0
LeftLimit(centerAngle, maxLeftAngle) ==
    LET leftLimitAngle == U16(centerAngle - maxLeftAngle)
    IN  IF leftLimitAngle < 0 THEN 0 ELSE leftLimitAngle

\* rightLimitAngle: uint16 addition, then the cap at actuationRange
RightLimit(centerAngle, maxRightAngle, actuationRange) ==
    LET rightLimitAngle == U16(centerAngle + maxRightAngle)
    IN  IF rightLimitAngle > actuationRange THEN actuationRange ELSE rightLimitAngle

\* the struct literal
NewHandler(in) ==
    [ nil |-> FALSE,
      hasAfterSetAngleFunc |-> in.hasAfterSetAngleFunc,
      hasIsMovementEnabled |-> in.hasIsMovementEnabled,
      isDirectionInverted |-> in.isDirectionInverted,
      frequency |-> in.frequency,
      minPulseWidth |-> in.minPulseWidth,
      maxPulseWidth |-> in.maxPulseWidth,
      angle |-> in.centerAngle,
      centerAngle |-> in.centerAngle,
      actuationRange |-> in.actuationRange,
      hasLogger |-> in.hasLogger,
      channel |-> in.channel,
      leftLimitAngle |-> LeftLimit(in.centerAngle, in.maxLeftAngle),
      rightLimitAngle |->
          RightLimit(in.centerAngle, in.maxRightAngle, in.actuationRange),
      period |-> Period(in.frequency) ]

\* the period message, logged once the PWM is configured
PeriodLog(in) ==
    IF in.frequency # 0 /\ in.configureOK /\ in.hasLogger
        THEN <<LogPeriodEvent(Period(in.frequency))>> ELSE <<>>

\* the outcomes of NewDefaultHandler; centerErr is the code its centering call
\* returned and the constructor discards
NewDefaultHandler(in, enabled) ==
    IF ValidationError(in) # ErrorCodeNil
        THEN {[h |-> NilHandler, err |-> ValidationError(in),
               events |-> PeriodLog(in), centerErr |-> ErrorCodeNil]}
        ELSE {[h |-> r.h, err |-> ErrorCodeNil,
               events |-> PeriodLog(in) \o r.events, centerErr |-> r.err]
              : r \in SetAngleToCenter(NewHandler(in), enabled)}

-----------------------------------------------------------------------------
(* State machine *)

NoCall == [op |-> "none", arg |-> 0, prev |-> 0, centerErr |-> ErrorCodeNil]

NoArgs == [nil |-> TRUE]

\* what isMovementEnabled may answer during a call; it is not called when nil
Answers(hasIsMovementEnabled) == IF hasIsMovementEnabled THEN BOOLEAN ELSE {TRUE}

Init ==
    /\ h = NilHandler
    /\ args = NoArgs
    /\ err = ErrorCodeNil
    /\ call = NoCall
    /\ events = <<>>

\* the state after a call op(arg) on the handler with outcome r
Returned(op, arg, r) ==
    /\ h' = r.h
    /\ err' = r.err
    /\ events' = r.events
    /\ call' = [op |-> op, arg |-> arg, prev |-> h.angle, centerErr |-> ErrorCodeNil]
    /\ UNCHANGED args

Construct ==
    /\ call.op = "none"
    /\ \E in \in ConstructorInputs :
      \E enabled \in Answers(in.hasIsMovementEnabled) :
        \E r \in NewDefaultHandler(in, enabled) :
            /\ h' = r.h
            /\ args' = in
            /\ err' = r.err
            /\ events' = r.events
            /\ call' = [op |-> "NewDefaultHandler", arg |-> 0, prev |-> 0,
                        centerErr |-> r.centerErr]

DoSetAngle ==
    /\ ~h.nil
    /\ \E angle \in AngleInputs, enabled \in Answers(h.hasIsMovementEnabled) :
        \E r \in SetAngle(h, angle, enabled) : Returned("SetAngle", angle, r)

DoSetAngleToCenter ==
    /\ ~h.nil
    /\ \E enabled \in Answers(h.hasIsMovementEnabled) :
        \E r \in SetAngleToCenter(h, enabled) : Returned("SetAngleToCenter", 0, r)

DoSetAngleRelativeToCenter ==
    /\ ~h.nil
    /\ \E relativeAngle \in RelativeInputs, enabled \in Answers(h.hasIsMovementEnabled) :
        \E r \in SetAngleRelativeToCenter(h, relativeAngle, enabled) :
            Returned("SetAngleRelativeToCenter", relativeAngle, r)

DoSetAngleToRight ==
    /\ ~h.nil
    /\ \E angle \in OffsetInputs, enabled \in Answers(h.hasIsMovementEnabled) :
        \E r \in SetAngleToRight(h, angle, enabled) :
            Returned("SetAngleToRight", angle, r)

DoSetAngleToLeft ==
    /\ ~h.nil
    /\ \E angle \in OffsetInputs, enabled \in Answers(h.hasIsMovementEnabled) :
        \E r \in SetAngleToLeft(h, angle, enabled) :
            Returned("SetAngleToLeft", angle, r)

Next ==
    \/ Construct
    \/ DoSetAngle
    \/ DoSetAngleToCenter
    \/ DoSetAngleRelativeToCenter
    \/ DoSetAngleToRight
    \/ DoSetAngleToLeft

Spec == Init /\ [][Next]_vars

-----------------------------------------------------------------------------
(* Properties *)

SetOps ==
    {"SetAngle", "SetAngleToCenter", "SetAngleRelativeToCenter",
     "SetAngleToRight", "SetAngleToLeft"}

Constructed == ~h.nil

\* the calibrations whose limits the constructor computes without wrap-around
NoWrapCalibration ==
    /\ args.maxLeftAngle <= args.centerAngle
    /\ args.centerAngle + args.maxRightAngle < Uint16Mod

Min(a, b) == IF a < b THEN a ELSE b
Max(a, b) == IF a > b THEN a ELSE b

\* C1: after a call of the SetAngle family the stored angle lies in
\* [leftLimitAngle, rightLimitAngle].  Stated for the calibrations whose limits
\* are computed without wrap-around, where the interval is the intended one.
C1_AngleWithinLimits ==
    (Constructed /\ NoWrapCalibration /\ call.op \in SetOps) =>
        (h.leftLimitAngle <= GetAngle(h) /\ GetAngle(h) <= h.rightLimitAngle)

\* C2: a constructed handler has 0 <= leftLimitAngle <= centerAngle <=
\* rightLimitAngle <= actuationRange, the limits being
\* max(centerAngle - maxLeftAngle, 0) and min(centerAngle + maxRightAngle,
\* actuationRange) as mathematical integers.
C2_LimitsOrdered ==
    Constructed =>
        /\ 0 <= h.leftLimitAngle
        /\ h.leftLimitAngle <= h.centerAngle
        /\ h.centerAngle <= h.rightLimitAngle
        /\ h.rightLimitAngle <= h.actuationRange
        /\ h.leftLimitAngle = Max(args.centerAngle - args.maxLeftAngle, 0)
        /\ h.rightLimitAngle =
              Min(args.centerAngle + args.maxRightAngle, args.actuationRange)

\* C3: without inversion, SetAngle(x) that returns success leaves GetAngle() = x;
\* SetAngle(x) that returns AngleOutOfRange leaves the angle held before the
\* call and makes no call to the PWM, the logger or the callback.
C3_SetAngleStoresOrRejects ==
    (call.op = "SetAngle" /\ ~h.isDirectionInverted) =>
        /\ err \in {ErrorCodeNil, ErrorCodeServoAngleOutOfRange}
        /\ err = ErrorCodeNil => GetAngle(h) = call.arg
        /\ err = ErrorCodeServoAngleOutOfRange =>
              (GetAngle(h) = call.prev /\ events = <<>>)

\* a rejected SetAngle(x), x not the angle held, on a handler that has a logger,
\* a callback and no movement predicate
C3_Witness ==
    /\ call.op = "SetAngle"
    /\ ~h.isDirectionInverted
    /\ err = ErrorCodeServoAngleOutOfRange
    /\ call.arg # call.prev
    /\ h.hasLogger /\ h.hasAfterSetAngleFunc /\ ~h.hasIsMovementEnabled

\* C4: without inversion, SetAngleToLeft(k) returns success and leaves the angle
\* at centerAngle - min(k, centerAngle - leftLimitAngle), SetAngleToRight(k)
\* returns success and leaves it at centerAngle + min(k, rightLimitAngle -
\* centerAngle); with actuationRange 180, centerAngle 90, maxLeftAngle 90 and
\* maxRightAngle 90, SetAngleToLeft(30) gives 60.  Stated for the calibrations
\* whose limits are computed without wrap-around.
C4_LeftRightOffsets ==
    (Constructed /\ NoWrapCalibration /\ ~h.isDirectionInverted) =>
        /\ call.op = "SetAngleToLeft" =>
              /\ err = ErrorCodeNil
              /\ GetAngle(h) =
                    h.centerAngle - Min(call.arg, h.centerAngle - h.leftLimitAngle)
        /\ call.op = "SetAngleToRight" =>
              /\ err = ErrorCodeNil
              /\ GetAngle(h) =
                    h.centerAngle + Min(call.arg, h.rightLimitAngle - h.centerAngle)

\* C5: IsAngleCentered() holds right after a successful construction and right
\* after every SetAngleToCenter() call, with or without inversion.  Stated for
\* the calibrations whose limits are computed without wrap-around.
C5_CenteredAfterCentering ==
    ( /\ Constructed
      /\ NoWrapCalibration
      /\ call.op \in {"NewDefaultHandler", "SetAngleToCenter"} ) =>
        IsAngleCentered(h)

\* C6: SetAngleToCenter() returns success in every state of every constructed
\* handler, and so does the centering call whose error the constructor discards.
\* Stated for the calibrations whose limits are computed without wrap-around.
C6_CenteringSucceeds ==
    (Constructed /\ NoWrapCalibration) =>
        /\ call.op = "SetAngleToCenter" => err = ErrorCodeNil
        /\ call.op = "NewDefaultHandler" => call.centerErr = ErrorCodeNil

\* C7: with inversion, a SetAngle(a) that returns success and changes the angle
\* leaves GetAngle() = actuationRange - a as a mathematical integer.
C7_InvertedMirror ==
    ( /\ call.op = "SetAngle"
      /\ h.isDirectionInverted
      /\ err = ErrorCodeNil
      /\ GetAngle(h) # call.prev ) =>
        GetAngle(h) = h.actuationRange - call.arg

\* the code the claimed order of checks gives for the arguments
FirstFailingCheck ==
    CASE args.frequency = 0 -> ErrorCodeServoZeroFrequency
      [] ~args.configureOK -> ErrorCodeServoFailedToConfigurePWM
      [] ~args.channelOK -> ErrorCodeServoFailedToGetPWMChannel
      [] args.minPulseWidth = 0 \/ args.minPulseWidth >= 1000000000 \div args.frequency
            -> ErrorCodeServoInvalidMinPulseWidth
      [] args.maxPulseWidth = 0 \/ args.maxPulseWidth >= 1000000000 \div args.frequency
            -> ErrorCodeServoInvalidMaxPulseWidth
      [] args.actuationRange = 0 \/ args.actuationRange > 360
            -> ErrorCodeServoInvalidActuationRange
      [] args.centerAngle > args.actuationRange -> ErrorCodeServoInvalidCenterAngle
      [] OTHER -> ErrorCodeNil

\* C8: NewDefaultHandler returns a nil handler with the code of the first
\* failing check, in the order frequency, PWM configuration, channel, minimum
\* pulse width, maximum pulse width, actuation range, center angle; and a
\* handler with no error exactly when no check fails.
C8_FirstFailingCheckWins ==
    call.op = "NewDefaultHandler" =>
        /\ err = FirstFailingCheck
        /\ h.nil <=> (err # ErrorCodeNil)

\* a construction that fails on the channel although the minimum pulse width,
\* the actuation range and the center angle are invalid too
C8_Witness ==
    /\ call.op = "NewDefaultHandler"
    /\ args.frequency # 0 /\ args.configureOK /\ ~args.channelOK
    /\ args.minPulseWidth = 0
    /\ args.actuationRange > 360
    /\ err = ErrorCodeServoFailedToGetPWMChannel
    /\ h.nil

\* C9: every constructed handler has 0 < minPulseWidth < maxPulseWidth < period.
C9_PulseWidthsOrdered ==
    Constructed =>
        /\ 0 < h.minPulseWidth
        /\ h.minPulseWidth < h.maxPulseWidth
        /\ h.maxPulseWidth < h.period

\* C10: a SetAngle whose remapped target equals the stored angle returns
\* success, leaves the angle and calls neither PWM, logger nor callback.
C10_SameAngleNoOp ==
    (call.op = "SetAngle" /\ Remap(h, call.arg) = call.prev) =>
        /\ err = ErrorCodeNil
        /\ GetAngle(h) = call.prev
        /\ events = <<>>

\* the kinds of the collaborator calls the last call made, in order
Kinds == [i \in 1..Len(events) |-> events[i].kind]

\* the last call asked isMovementEnabled and was answered false
MovementDisabled ==
    \E i \in 1..Len(events) :
        events[i].kind = "IsMovementEnabled" /\ events[i].value = 0

\* the last call was a SetAngle that was accepted and changed the angle
SetAngleMoved ==
    call.op = "SetAngle" /\ err = ErrorCodeNil /\ GetAngle(h) # call.prev

\* C11: an accepted SetAngle that changes the angle, when isMovementEnabled is
\* present and answers false, makes no SetDuty call but stores the angle, logs
\* it if there is a logger and passes it to the callback if there is one; when
\* the predicate is absent or answers true, it makes exactly one SetDuty call,
\* before the log and the callback.
C11_MovementGate ==
    SetAngleMoved =>
        /\ GetAngle(h) = Remap(h, call.arg)
        /\ Kinds =
              (IF h.hasIsMovementEnabled THEN <<"IsMovementEnabled">> ELSE <<>>)
              \o (IF MovementDisabled THEN <<>> ELSE <<"SetDuty">>)
              \o (IF h.hasLogger THEN <<"LogAngle">> ELSE <<>>)
              \o (IF h.hasAfterSetAngleFunc THEN <<"AfterSetAngle">> ELSE <<>>)
        /\ \A i \in 1..Len(events) :
              events[i].kind \in {"LogAngle", "AfterSetAngle"} =>
                  events[i].value = GetAngle(h)

\* a SetAngle that moved a handler with logger and callback while its
\* predicate answered false: the angle is logged and passed on, no duty is set
C11_Witness ==
    /\ SetAngleMoved
    /\ MovementDisabled
    /\ Kinds = <<"IsMovementEnabled", "LogAngle", "AfterSetAngle">>

\* the value of four digits below 2^31
ToInt(ds) == ds[1] + Base * (ds[2] + Base * (ds[3] + Base * ds[4]))

\* whether four digits are below 2^31
IsInt(ds) == ds[4] < 128

\* the duty calls the last call made
DutyCalls == {i \in 1..Len(events) : events[i].kind = "SetDuty"}

\* the calibrations C9 asks for
OrderedPulseWidths == h.minPulseWidth < h.maxPulseWidth

\* C12: every duty forwarded to the PWM lies in [minPulseWidth, maxPulseWidth],
\* equals minPulseWidth + floor((maxPulseWidth - minPulseWidth) * angle /
\* actuationRange) for the newly stored angle, with no 32-bit wrap in
\* maxPulseWidth - minPulseWidth, and carries the channel and period fixed at
\* construction.  Stated for the handlers whose pulse widths are ordered and
\* whose limits are computed without wrap-around.
C12_DutyWithinPulseWidths ==
    (Constructed /\ NoWrapCalibration /\ OrderedPulseWidths) =>
        \A i \in DutyCalls :
            /\ events[i].channel = args.channel
            /\ events[i].period = 1000000000 \div args.frequency
            /\ IsInt(events[i].pulse)
            /\ h.minPulseWidth <= ToInt(events[i].pulse)
            /\ ToInt(events[i].pulse) <= h.maxPulseWidth
            /\ ToInt(events[i].pulse) < h.period
            /\ ToInt(events[i].pulse) =
                  h.minPulseWidth
                  + ((h.maxPulseWidth - h.minPulseWidth) * GetAngle(h))
                        \div h.actuationRange

====
